---- MODULE Spec2Model ----
(***************************************************************************)
(* GOST R 34.11-94 hash (package main of hzhexee/mskzi-GOST341194).        *)
(*                                                                         *)
(* Bytes are naturals 0..255.  A Go array or slice b is the sequence whose *)
(* element k+1 is b[k].  A *big.Int is its normalised little-endian digit  *)
(* sequence in base 256 (math/big keeps a nat without leading zero words). *)
(* A 32-bit word of the cipher is its four bytes, least significant first. *)
(*                                                                         *)
(* TLC evaluates a LET definition again at every use of its name, and an   *)
(* operator argument once.  So a value that is used more than once is      *)
(* handed on as the argument of a continuation operator: F(x) ==           *)
(* FWith(x, e(x)) stands for "v := e(x); rest of F".                       *)
(***************************************************************************)
EXTENDS Integers, Sequences, FiniteSets, TLC

BlockSize == 32
Size == 32

Byte == 0..255

(* ----------------------------------------------------------------------- *)
(* Byte arithmetic used by the Go operators ^, <<, >>, + on uint8/uint32.  *)
(* ----------------------------------------------------------------------- *)
RECURSIVE BitXor(_, _, _)
BitXor(a, b, n) ==
    IF n = 0 THEN 0
    ELSE ((a + b) % 2) + 2 * BitXor(a \div 2, b \div 2, n - 1)

XorNibble == [a \in 0..15 |-> [b \in 0..15 |-> BitXor(a, b, 4)]]

XorTable ==
    [a \in Byte |-> [b \in Byte |->
        16 * XorNibble[a \div 16][b \div 16] + XorNibble[a % 16][b % 16]]]

Xor(a, b) == XorTable[a][b]

\* TLC keeps [i \in S |-> e] unevaluated; SubSeq makes it a tuple of values
Zero(n) == SubSeq([i \in 1..n |-> 0], 1, n)

Rev(s) == SubSeq([i \in 1..Len(s) |-> s[Len(s) + 1 - i]], 1, Len(s))

(* ----------------------------------------------------------------------- *)
(* Package variables.                                                      *)
(* ----------------------------------------------------------------------- *)
SboxIdGostR341194TestParamSet ==
    << <<4, 10, 9, 2, 13, 8, 0, 14, 6, 11, 1, 12, 7, 15, 5, 3>>,
       <<14, 11, 4, 12, 6, 13, 15, 10, 2, 3, 8, 1, 0, 7, 5, 9>>,
       <<5, 8, 1, 13, 10, 3, 4, 2, 14, 15, 12, 7, 6, 0, 9, 11>>,
       <<7, 13, 10, 1, 0, 8, 9, 15, 14, 4, 6, 12, 11, 2, 5, 3>>,
       <<6, 12, 7, 1, 5, 15, 13, 8, 4, 10, 9, 14, 0, 3, 11, 2>>,
       <<4, 11, 10, 0, 7, 2, 1, 13, 3, 6, 8, 5, 9, 12, 15, 14>>,
       <<13, 11, 4, 1, 3, 15, 5, 9, 0, 10, 14, 7, 6, 8, 2, 12>>,
       <<1, 15, 13, 0, 5, 7, 10, 4, 9, 2, 3, 14, 6, 11, 8, 12>> >>

\* SboxDefault is a pointer to the table of package gost28147
SboxDefault == "SboxIdGostR341194TestParamSet"

c2 == Zero(BlockSize)

c3 ==
    << 255, 0, 255, 255, 0, 0, 0, 255,
       255, 0, 0, 255, 0, 255, 255, 0,
       0, 255, 0, 255, 0, 255, 0, 255,
       255, 0, 255, 0, 255, 0, 255, 0 >>

c4 == Zero(BlockSize)

\* 2^256 as a big.Int: digit 32 (the 33rd) is 1
big256 == Zero(BlockSize) \o <<1>>

\* the package-level variables every Hash shares, as the program starts
Globals ==
    [sboxes |-> [p \in {SboxDefault} |-> SboxIdGostR341194TestParamSet],
     c2 |-> c2, c3 |-> c3, c4 |-> c4, big256 |-> big256]

(* ----------------------------------------------------------------------- *)
(* GOST 28147-89 block cipher (imported package gost28147).                *)
(* ----------------------------------------------------------------------- *)
CipherBlockSize == 8

\* the key-word order of the 32 encryption rounds
SeqEncrypt ==
    << 0, 1, 2, 3, 4, 5, 6, 7, 0, 1, 2, 3, 4, 5, 6, 7,
       0, 1, 2, 3, 4, 5, 6, 7, 7, 6, 5, 4, 3, 2, 1, 0 >>

\* the 32-bit word of two 16-bit halves that may have overflowed into bit 16
WordOfHalves(lo, hi) ==
    << lo % 256, (lo \div 256) % 256,
       (hi + lo \div 65536) % 256, ((hi + lo \div 65536) \div 256) % 256 >>

\* n1 + key word, modulo 2^32
WordAdd(a, b) ==
    WordOfHalves(a[1] + b[1] + 256 * (a[2] + b[2]), a[3] + b[3] + 256 * (a[4] + b[4]))

WordXor(a, b) == << Xor(a[1], b[1]), Xor(a[2], b[2]), Xor(a[3], b[3]), Xor(a[4], b[4]) >>

\* eight 4-bit substitutions, nibble j through row j of the S-box
SboxK(sbox, n) ==
    << sbox[1][(n[1] % 16) + 1] + 16 * sbox[2][(n[1] \div 16) + 1],
       sbox[3][(n[2] % 16) + 1] + 16 * sbox[4][(n[2] \div 16) + 1],
       sbox[5][(n[3] % 16) + 1] + 16 * sbox[6][(n[3] \div 16) + 1],
       sbox[7][(n[4] % 16) + 1] + 16 * sbox[8][(n[4] \div 16) + 1] >>

\* rotation of the 32-bit word left by 11 bits
Rotl11(n) ==
    << (n[4] % 32) * 8 + n[3] \div 32,
       (n[1] % 32) * 8 + n[4] \div 32,
       (n[2] % 32) * 8 + n[1] \div 32,
       (n[3] % 32) * 8 + n[2] \div 32 >>

\* (the test of Len(n1) makes TLC evaluate n1 before the next round)
RECURSIVE Xcrypt(_, _, _, _, _)
Xcrypt(sbox, key, n1, n2, r) ==
    IF r > Len(SeqEncrypt) \/ Len(n1) # 4 THEN << n1, n2 >>
    ELSE LET kw == SubSeq(key, 4 * SeqEncrypt[r] + 1, 4 * SeqEncrypt[r] + 4)
         IN  Xcrypt(sbox, key,
                    WordXor(Rotl11(SboxK(sbox, WordAdd(n1, kw))), n2), n1, r + 1)

\* NewCipher(key, sbox).Encrypt(dst, src): the 8 bytes left in dst
Encrypt(key, sbox, src) ==
    LET n == Xcrypt(sbox, key, SubSeq(src, 1, 4), SubSeq(src, 5, 8), 1)
    IN  n[2] \o n[1]

(* ----------------------------------------------------------------------- *)
(* Block algebra.                                                          *)
(* ----------------------------------------------------------------------- *)
fA(in) ==
    << Xor(in[17], in[25]), Xor(in[18], in[26]), Xor(in[19], in[27]),
       Xor(in[20], in[28]), Xor(in[21], in[29]), Xor(in[22], in[30]),
       Xor(in[23], in[31]), Xor(in[24], in[32]) >>
    \o SubSeq(in, 1, 24)

\* the permutation the other way round: out[8c + r] = in[4r + c]
fPInverse(in) ==
    SubSeq([j \in 1..BlockSize |-> in[4 * ((j - 1) % 8) + ((j - 1) \div 8) + 1]], 1, BlockSize)

fP(in) ==
    << in[1], in[9], in[17], in[25], in[2], in[10], in[18],
       in[26], in[3], in[11], in[19], in[27], in[4],
       in[12], in[20], in[28], in[5], in[13], in[21],
       in[29], in[6], in[14], in[22], in[30], in[7],
       in[15], in[23], in[31], in[8], in[16], in[24], in[32] >>

\* fChi with the taps at bytes 0..7, 24..25 and 30..31
fChiLowTaps(in) ==
    << Xor(Xor(Xor(Xor(Xor(in[1], in[3]), in[5]), in[7]), in[25]), in[31]),
       Xor(Xor(Xor(Xor(Xor(in[2], in[4]), in[6]), in[8]), in[26]), in[32]) >>
    \o SubSeq(in, 1, 30)

fChi(in) ==
    << Xor(Xor(Xor(Xor(Xor(in[31], in[29]), in[27]), in[25]), in[1]), in[7]),
       Xor(Xor(Xor(Xor(Xor(in[32], in[30]), in[28]), in[26]), in[2]), in[8]) >>
    \o SubSeq(in, 1, 30)

\* the loop of blockReverse: positions i and j = BlockSize-1-i of dst are
\* assigned from src[j] and src[i]; aliased says dst and src are one array
\* (the test of Len(dst) makes TLC evaluate dst before the next iteration)
RECURSIVE blockReverseLoop(_, _, _, _)
blockReverseLoop(dst, src, i, aliased) ==
    LET j == BlockSize - 1 - i
    IN  IF ~(i < j) \/ Len(dst) # BlockSize THEN dst
        ELSE LET d == [dst EXCEPT ![i + 1] = src[j + 1], ![j + 1] = src[i + 1]]
             IN  blockReverseLoop(d, IF aliased THEN d ELSE src, i + 1, aliased)

blockReverse(dst, src, aliased) == blockReverseLoop(dst, src, 0, aliased)

blockXor(a, b) == SubSeq([i \in 1..BlockSize |-> Xor(a[i], b[i])], 1, BlockSize)

\* for i := 0; i < n; i++ { out = fChi(out) }
\* (the test of Len(out) makes TLC evaluate out before the next iteration)
RECURSIVE fChiTimes(_, _)
fChiTimes(out, n) ==
    IF n = 0 \/ Len(out) # BlockSize THEN out ELSE fChiTimes(fChi(out), n - 1)

(* ----------------------------------------------------------------------- *)
(* The compression step.                                                   *)
(* ----------------------------------------------------------------------- *)
\* one key-schedule round of step: k = blockReverse(fP(u xor v))
stepKey(u, v) ==
    LET k == fP(blockXor(u, v)) IN blockReverse(k, k, TRUE)

\* c.Encrypt(s, {hin[lo+7], ..., hin[lo]}) on the quarter of hin that starts
\* at Go index lo; the result is s[0..7]
stepEncrypt(k, sbox, hin, lo) ==
    Encrypt(k, sbox,
            << hin[lo + 8], hin[lo + 7], hin[lo + 6], hin[lo + 5],
               hin[lo + 4], hin[lo + 3], hin[lo + 2], hin[lo + 1] >>)

\* the ciphertext stored in the order the cipher returned it
stepStoreForward(out, s, lo) ==
    SubSeq(out, 1, lo) \o SubSeq(s, 1, 8) \o SubSeq(out, lo + CipherBlockSize + 1, BlockSize)

\* out[lo+7] = s[0], ..., out[lo] = s[7]
stepStore(out, s, lo) ==
    SubSeq(out, 1, lo)
    \o << s[8], s[7], s[6], s[5], s[4], s[3], s[2], s[1] >>
    \o SubSeq(out, lo + CipherBlockSize + 1, BlockSize)

\* the mixing with the two XORs exchanged: H first, M after the one round
stepMixSwapped(out, hin, m) ==
    fChiTimes(blockXor(fChi(blockXor(fChiTimes(out, 12), hin)), m), 61)

\* the mixing with 60 instead of 61 closing rounds
stepMixShort(out, hin, m) ==
    fChiTimes(blockXor(fChi(blockXor(fChiTimes(out, 12), m)), hin), 60)

\* the mixing at the end of step, from the block out the four rounds left
stepMix(out, hin, m) ==
    fChiTimes(blockXor(fChi(blockXor(fChiTimes(out, 12), m)), hin), 61)

\* one of the four rounds of step, on r = [u, v, keys, s]: the key k of the
\* round is handed to NewCipher, the quarter of hin at lo is encrypted
stepRoundWith(tbl, hin, r, lo, k) ==
    [u |-> r.u, v |-> r.v, keys |-> Append(r.keys, k),
     s |-> stepStore(r.s, stepEncrypt(k, tbl, hin, lo), lo)]

stepRound(tbl, hin, r, lo) == stepRoundWith(tbl, hin, r, lo, stepKey(r.u, r.v))

\* blockXor(u, fA(u), &c); v = fA(fA(v))
stepSchedule(r, c) == [r EXCEPT !.u = blockXor(fA(r.u), c), !.v = fA(fA(r.v))]

\* the four rounds with the quarters of hin taken from the low end
stepRoundsLowFirst(g, tbl, hin, m) ==
    stepRound(tbl, hin,
      stepSchedule(
        stepRound(tbl, hin,
          stepSchedule(
            stepRound(tbl, hin,
              stepSchedule(
                stepRound(tbl, hin,
                          [u |-> hin, v |-> m, keys |-> << >>, s |-> Zero(BlockSize)],
                          0),
                g.c2),
              8),
            g.c3),
          16),
        g.c4),
      24)

stepRounds(g, tbl, hin, m) ==
    stepRound(tbl, hin,
      stepSchedule(
        stepRound(tbl, hin,
          stepSchedule(
            stepRound(tbl, hin,
              stepSchedule(
                stepRound(tbl, hin,
                          [u |-> hin, v |-> m, keys |-> << >>, s |-> Zero(BlockSize)],
                          24),
                g.c2),
              16),
            g.c3),
          8),
        g.c4),
      0)

stepResult(hin, m, r) ==
    [hin |-> hin, m |-> m, keys |-> r.keys, s |-> r.s, out |-> stepMix(r.s, hin, m)]

\* step(hin, m) with its intermediate values: the four keys handed to
\* NewCipher, the block s left by the four encryptions, and the result out
stepFull(g, sbox, hin, m) == stepResult(hin, m, stepRounds(g, g.sboxes[sbox], hin, m))

step(g, sbox, hin, m) == stepFull(g, sbox, hin, m).out

(* ----------------------------------------------------------------------- *)
(* math/big and uint64 arithmetic.                                         *)
(* ----------------------------------------------------------------------- *)
\* a nat without its leading (most significant) zero digits
RECURSIVE bigNorm(_)
bigNorm(d) ==
    IF Len(d) = 0 \/ d[Len(d)] # 0 THEN d ELSE bigNorm(SubSeq(d, 1, Len(d) - 1))

\* big.NewInt(0).SetBytes(data): data is big-endian
bigSetBytes(data) == bigNorm(Rev(data))

\* Int.Bytes(): big-endian, no leading zero byte
bigBytes(x) == Rev(x)

bigDigit(x, i) == IF i <= Len(x) THEN x[i] ELSE 0

\* (the test of Len(acc) makes TLC evaluate acc before the next digit)
RECURSIVE bigAddLoop(_, _, _, _, _)
bigAddLoop(x, y, i, carry, acc) ==
    IF (i > Len(x) /\ i > Len(y)) \/ Len(acc) # i - 1
    THEN IF carry = 0 THEN acc ELSE Append(acc, carry)
    ELSE LET t == bigDigit(x, i) + bigDigit(y, i) + carry
         IN  bigAddLoop(x, y, i + 1, t \div 256, Append(acc, t % 256))

\* Int.Add
bigAdd(x, y) == bigNorm(bigAddLoop(x, y, 1, 0, << >>))

RECURSIVE bigCmpFrom(_, _, _)
bigCmpFrom(x, y, i) ==
    IF i = 0 THEN 0
    ELSE IF x[i] < y[i] THEN -1
    ELSE IF x[i] > y[i] THEN 1
    ELSE bigCmpFrom(x, y, i - 1)

\* Int.Cmp: -1, 0 or +1
bigCmp(x, y) ==
    IF Len(x) < Len(y) THEN -1
    ELSE IF Len(x) > Len(y) THEN 1
    ELSE bigCmpFrom(x, y, Len(x))

\* (the test of Len(acc) makes TLC evaluate acc before the next digit)
RECURSIVE bigSubLoop(_, _, _, _, _)
bigSubLoop(x, y, i, borrow, acc) ==
    IF i > Len(x) \/ Len(acc) # i - 1 THEN acc
    ELSE LET t == x[i] - bigDigit(y, i) - borrow
         IN  bigSubLoop(x, y, i + 1, IF t < 0 THEN 1 ELSE 0,
                        Append(acc, IF t < 0 THEN t + 256 ELSE t))

\* Int.Sub, for x >= y
bigSub(x, y) == bigNorm(bigSubLoop(x, y, 1, 0, << >>))

\* a uint64 is its 8 bytes, least significant first; U64 converts a small
\* natural number
RECURSIVE U64Digits(_, _)
U64Digits(n, k) == IF k = 0 THEN << >> ELSE << n % 256 >> \o U64Digits(n \div 256, k - 1)

U64(n) == U64Digits(n, 8)

\* a + b on uint64: the carry out of the eighth byte is lost
U64Add(a, b) == SubSeq(bigAddLoop(a, b, 1, 0, << >>), 1, 8)

\* binary.BigEndian.PutUint64(block[24:], size): the block after the call
\* the counter stored least significant byte first
PutUint64LittleEndian(block, size) == SubSeq(block, 1, 24) \o size

PutUint64At24(block, size) == SubSeq(block, 1, 24) \o Rev(size)

(* ----------------------------------------------------------------------- *)
(* type Hash and its methods.  A method is the record of what it leaves:   *)
(* h, the receiver after the call; its results; calls, the step            *)
(* invocations it made, in order; and adds, its chkAdd invocations.        *)
(* ----------------------------------------------------------------------- *)
\* a Reset that keeps the checksum
ResetKeepChk(h) ==
    [h EXCEPT !.size = U64(0), !.hsh = Zero(BlockSize), !.buf = SubSeq(h.buf, 1, 0)]

Reset(h) ==
    [h EXCEPT !.size = U64(0), !.hsh = Zero(BlockSize), !.chk = << >>,
              !.buf = SubSeq(h.buf, 1, 0)]

\* the zero value Hash{sbox: sbox}, then Reset
New(sbox) ==
    Reset([sbox |-> sbox, size |-> U64(0), hsh |-> Zero(BlockSize), chk |-> << >>,
           buf |-> << >>, tmp |-> Zero(BlockSize)])

\* a reduction only above 2^256
chkAddReduceStrict(g, i) == IF bigCmp(i, g.big256) = 1 THEN bigSub(i, g.big256) ELSE i

\* if i.Cmp(big256) != -1 { i.Sub(i, big256) }; return i
chkAddReduce(g, i) == IF bigCmp(i, g.big256) # -1 THEN bigSub(i, g.big256) ELSE i

\* an addition without the reduction
chkAddNoReduce(g, h, data) == bigAdd(bigSetBytes(data), h.chk)

chkAdd(g, h, data) == chkAddReduce(g, bigAdd(bigSetBytes(data), h.chk))

\* an iteration that drops all the pending bytes
WriteBlockDropBuf(h1, chk, st) ==
    [h |-> [h1 EXCEPT !.chk = chk, !.buf = << >>, !.hsh = st.out],
     call |-> st,
     add |-> [chk |-> h1.chk, data |-> h1.tmp, sum |-> chk]]

\* one iteration of the loop of Write: h1 is h after the first two
\* statements, chk and st are what chkAdd and step return
WriteBlockWith(h1, chk, st) ==
    [h |-> [h1 EXCEPT !.chk = chk, !.buf = SubSeq(h1.buf, BlockSize + 1, Len(h1.buf)),
                      !.hsh = st.out],
     call |-> st,
     add |-> [chk |-> h1.chk, data |-> h1.tmp, sum |-> chk]]

WriteBlockTmp(g, h1) ==
    WriteBlockWith(h1, chkAdd(g, h1, h1.tmp), stepFull(g, h1.sbox, h1.hsh, h1.tmp))

\* an iteration that counts bytes, not bits
WriteBlockBytes(g, h) ==
    WriteBlockTmp(g, [h EXCEPT !.size = U64Add(h.size, U64(BlockSize)),
                               !.tmp = blockReverse(h.tmp, SubSeq(h.buf, 1, BlockSize),
                                                    FALSE)])

WriteBlock(g, h) ==
    WriteBlockTmp(g, [h EXCEPT !.size = U64Add(h.size, U64(BlockSize * 8)),
                               !.tmp = blockReverse(h.tmp, SubSeq(h.buf, 1, BlockSize),
                                                    FALSE)])

\* for len(h.buf) >= BlockSize { ... }
WriteLoopWith(r, calls, adds) ==
    [h |-> r.h, calls |-> Append(calls, r.call), adds |-> Append(adds, r.add)]

\* (r.calls is evaluated before the next iteration)
RECURSIVE WriteLoop(_, _)
WriteLoop(g, r) ==
    IF ~(Len(r.h.buf) >= BlockSize) \/ Len(r.calls) < 0 THEN r
    ELSE WriteLoop(g, WriteLoopWith(WriteBlock(g, r.h), r.calls, r.adds))

WriteResult(data, r) ==
    [h |-> r.h, n |-> Len(data), err |-> "nil", calls |-> r.calls, adds |-> r.adds]

Write(g, h, data) ==
    WriteResult(data, WriteLoop(g, [h |-> [h EXCEPT !.buf = h.buf \o data],
                                    calls |-> << >>, adds |-> << >>]))

\* copy(dst[at:], src), at counted from 0: the array dst after the call
copyAt(dst, at, src) ==
    LET n == IF Len(src) < Len(dst) - at THEN Len(src) ELSE Len(dst) - at
    IN  SubSeq(dst, 1, at) \o SubSeq(src, 1, n) \o SubSeq(dst, at + n + 1, Len(dst))

\* the part of Sum that absorbs the pending bytes (len(h.buf) != 0): block
\* is the reversed block, chk and st are what chkAdd and step return
SumTailWith(h, block, chk, st) ==
    [size |-> U64Add(h.size, U64(Len(h.buf) * 8)), chk |-> chk, hsh |-> st.out,
     calls |-> << st >>, adds |-> << [chk |-> h.chk, data |-> block, sum |-> chk] >>]

SumTailBlock(g, h, block) ==
    SumTailWith(h, block, chkAdd(g, h, block), stepFull(g, h.sbox, h.hsh, block))

SumTailCopy(g, h, block) == SumTailBlock(g, h, blockReverse(block, block, TRUE))

SumTail(g, h) == SumTailCopy(g, h, copyAt(Zero(BlockSize), 0, h.buf))

\* an end of Sum that keeps the final value in the hasher
SumResultStore(h, in, t, st1, st2) ==
    [h |-> [h EXCEPT !.hsh = st2.out], panic |-> FALSE,
     out |-> in \o blockReverse(st2.out, st2.out, TRUE),
     calls |-> t.calls \o << st1, st2 >>, adds |-> t.adds]

\* the end of Sum: st2 is what the step on the checksum block returns
SumResult(h, in, t, st1, st2) ==
    [h |-> h, panic |-> FALSE, out |-> in \o blockReverse(st2.out, st2.out, TRUE),
     calls |-> t.calls \o << st1, st2 >>, adds |-> t.adds]

\* The slice expression block[BlockSize-len(chkBytes):] panics when its low
\* bound is negative: panic is TRUE then, and nothing is returned.
SumChk(g, h, in, t, st1, chkBytes) ==
    IF BlockSize - Len(chkBytes) < 0
    THEN [h |-> h, panic |-> TRUE, out |-> << >>,
          calls |-> Append(t.calls, st1), adds |-> t.adds]
    ELSE SumResult(h, in, t, st1,
                   stepFull(g, h.sbox, st1.out,
                            copyAt(Zero(BlockSize), BlockSize - Len(chkBytes), chkBytes)))

\* t is the local state (size, chk, hsh) after the pending bytes
SumSize(g, h, in, t) ==
    SumChk(g, h, in, t,
           stepFull(g, h.sbox, t.hsh, PutUint64At24(Zero(BlockSize), t.size)),
           bigBytes(t.chk))

Sum(g, h, in) ==
    SumSize(g, h, in,
            IF Len(h.buf) # 0 THEN SumTail(g, h)
            ELSE [size |-> h.size, chk |-> h.chk, hsh |-> h.hsh,
                  calls |-> << >>, adds |-> << >>])

(* ----------------------------------------------------------------------- *)
(* Messages.  The six standard messages (ASCII) with their digests, and a  *)
(* message whose blocks make the checksum reach and pass 2^256.            *)
(* ----------------------------------------------------------------------- *)
\* ''
Vector1 ==
    <<  >>

\* 'a'
Vector2 ==
    << 97 >>

\* 'abc'
Vector3 ==
    << 97, 98, 99 >>

\* 'message digest'
Vector4 ==
    << 109, 101, 115, 115, 97, 103, 101, 32, 100, 105, 103, 101, 115, 116 >>

\* 'This is message, length=32 bytes'
Vector5 ==
    << 84, 104, 105, 115, 32, 105, 115, 32, 109, 101, 115, 115, 97, 103, 101, 44,
       32, 108, 101, 110, 103, 116, 104, 61, 51, 50, 32, 98, 121, 116, 101, 115 >>

\* 'Suppose the original message has length = 50 bytes'
Vector6 ==
    << 83, 117, 112, 112, 111, 115, 101, 32, 116, 104, 101, 32, 111, 114, 105, 103,
       105, 110, 97, 108, 32, 109, 101, 115, 115, 97, 103, 101, 32, 104, 97, 115,
       32, 108, 101, 110, 103, 116, 104, 32, 61, 32, 53, 48, 32, 98, 121, 116,
       101, 115 >>

\* ce85b99cc46752fffee35cab9a7b0278abb4c2d2055cff685af4912c49490f8d
Digest1 ==
    << 206, 133, 185, 156, 196, 103, 82, 255, 254, 227, 92, 171, 154, 123, 2, 120,
       171, 180, 194, 210, 5, 92, 255, 104, 90, 244, 145, 44, 73, 73, 15, 141 >>

\* d42c539e367c66e9c88a801f6649349c21871b4344c6a573f849fdce62f314dd
Digest2 ==
    << 212, 44, 83, 158, 54, 124, 102, 233, 200, 138, 128, 31, 102, 73, 52, 156,
       33, 135, 27, 67, 68, 198, 165, 115, 248, 73, 253, 206, 98, 243, 20, 221 >>

\* f3134348c44fb1b2a277729e2285ebb5cb5e0f29c975bc753b70497c06a4d51d
Digest3 ==
    << 243, 19, 67, 72, 196, 79, 177, 178, 162, 119, 114, 158, 34, 133, 235, 181,
       203, 94, 15, 41, 201, 117, 188, 117, 59, 112, 73, 124, 6, 164, 213, 29 >>

\* ad4434ecb18f2c99b60cbe59ec3d2469582b65273f48de72db2fde16a4889a4d
Digest4 ==
    << 173, 68, 52, 236, 177, 143, 44, 153, 182, 12, 190, 89, 236, 61, 36, 105,
       88, 43, 101, 39, 63, 72, 222, 114, 219, 47, 222, 22, 164, 136, 154, 77 >>

\* b1c466d37519b82e8319819ff32595e047a28cb6f83eff1c6916a815a637fffa
Digest5 ==
    << 177, 196, 102, 211, 117, 25, 184, 46, 131, 25, 129, 159, 243, 37, 149, 224,
       71, 162, 140, 182, 248, 62, 255, 28, 105, 22, 168, 21, 166, 55, 255, 250 >>

\* 471aba57a60a770d3a76130635c1fbea4ef14de51f78b4ae57dd893b62f55208
Digest6 ==
    << 71, 26, 186, 87, 166, 10, 119, 13, 58, 118, 19, 6, 53, 193, 251, 234,
       78, 241, 77, 229, 31, 120, 180, 174, 87, 221, 137, 59, 98, 245, 82, 8 >>

\* 32 bytes ff, then 01 02, then zeros to the end of the second block, then
\* the byte 61 repeated
CarryMessage ==
    SubSeq([i \in 1..32 |-> 255], 1, 32) \o << 1, 2 >> \o Zero(30)
    \o SubSeq([i \in 1..32 |-> 97], 1, 32)

Messages ==
    << Vector1, Vector2, Vector3, Vector4, Vector5, Vector6, CarryMessage >>

Digests == << Digest1, Digest2, Digest3, Digest4, Digest5, Digest6 >>

(* ----------------------------------------------------------------------- *)
(* The program: hashers created by New and driven by their callers.        *)
(*   globals  the package-level variables                                  *)
(*   hs       hs[i] is the Hash of caller i                                *)
(*   msg      msg[i] is the message caller i feeds to its Hash             *)
(*   hist     hist[i] is what caller i has written since New or Reset      *)
(*   nblk     nblk[i] is the number of step calls the Writes of caller i   *)
(*            have made since New or Reset                                 *)
(*   last     the last call made: the method, the caller, the arguments    *)
(*            and what the call returned                                   *)
(* ----------------------------------------------------------------------- *)
VARIABLES globals, hs, msg, hist, nblk, last

vars == << globals, hs, msg, hist, nblk, last >>

Insts == {1, 2}

\* the longest message a caller writes between two Resets
MaxMsgLen == 65

\* the prefixes handed to Sum
Prefixes == { << >>, << 222, 173 >> }

Init ==
    /\ globals = Globals
    /\ hs = [i \in Insts |-> New(SboxDefault)]
    /\ msg = [i \in Insts |-> 7]
    /\ hist = [i \in Insts |-> << >>]
    /\ nblk = [i \in Insts |-> 0]
    /\ last = [op |-> "New", inst |-> 1]

\* h := New(SboxDefault), for a caller that starts on message m
CallNew(i, m) ==
    /\ hs' = [hs EXCEPT ![i] = New(SboxDefault)]
    /\ msg' = [msg EXCEPT ![i] = m]
    /\ hist' = [hist EXCEPT ![i] = << >>]
    /\ nblk' = [nblk EXCEPT ![i] = 0]
    /\ last' = [op |-> "New", inst |-> i]
    /\ UNCHANGED globals

\* a Reset that resets every hasher
CallResetAll(i, m) ==
    /\ hs' = [j \in Insts |-> Reset(hs[j])]
    /\ msg' = [msg EXCEPT ![i] = m]
    /\ hist' = [hist EXCEPT ![i] = << >>]
    /\ nblk' = [nblk EXCEPT ![i] = 0]
    /\ last' = [op |-> "Reset", inst |-> i]
    /\ UNCHANGED globals

\* h.Reset(), after which the caller starts on message m
CallReset(i, m) ==
    /\ hs' = [hs EXCEPT ![i] = Reset(hs[i])]
    /\ msg' = [msg EXCEPT ![i] = m]
    /\ hist' = [hist EXCEPT ![i] = << >>]
    /\ nblk' = [nblk EXCEPT ![i] = 0]
    /\ last' = [op |-> "Reset", inst |-> i]
    /\ UNCHANGED globals

\* h.Write(data), data the next n bytes of the caller's message
CallWriteWith(i, data, r) ==
    /\ hs' = [hs EXCEPT ![i] = r.h]
    /\ hist' = [hist EXCEPT ![i] = hist[i] \o data]
    /\ nblk' = [nblk EXCEPT ![i] = nblk[i] + Len(r.calls)]
    /\ last' = [op |-> "Write", inst |-> i, data |-> data, n |-> r.n,
                err |-> r.err, calls |-> r.calls, adds |-> r.adds]
    /\ UNCHANGED << globals, msg >>

CallWriteData(i, data) == CallWriteWith(i, data, Write(globals, hs[i], data))

CallWrite(i, n) ==
    /\ Len(hist[i]) + n <= MaxMsgLen
    /\ Len(hist[i]) + n <= Len(Messages[msg[i]])
    /\ CallWriteData(i, SubSeq(Messages[msg[i]], Len(hist[i]) + 1, Len(hist[i]) + n))

\* h.Sum(in)
CallSumWith(i, in, r) ==
    /\ hs' = [hs EXCEPT ![i] = r.h]
    /\ last' = [op |-> "Sum", inst |-> i, in |-> in, out |-> r.out,
                panic |-> r.panic, calls |-> r.calls, adds |-> r.adds]
    /\ UNCHANGED << globals, msg, hist, nblk >>

CallSum(i, in) == CallSumWith(i, in, Sum(globals, hs[i], in))

\* One caller: it hashes the carry message, and after a Reset or a New that
\* message or the 32-byte one, in pieces that end inside, just before, at and
\* just after the end of a block.
Next ==
    \/ \E m \in {5, 7} : CallNew(1, m)
    \/ \E m \in {5, 7} : CallReset(1, m)
    \/ \E n \in {0, 16, 31, 32, 33, 64} : CallWrite(1, n)
    \/ \E in \in Prefixes : CallSum(1, in)

Spec == Init /\ [][Next]_vars

\* the rest of the caller's message
Rest(i) == Len(Messages[msg[i]]) - Len(hist[i])

\* One caller that hashes one of the messages, byte by byte, or the first
\* block at once, or all that is left at once.
InitStream ==
    /\ globals = Globals
    /\ hs = [i \in Insts |-> New(SboxDefault)]
    /\ msg \in [Insts -> 1..Len(Messages)]
    /\ msg[2] = 7
    /\ hist = [i \in Insts |-> << >>]
    /\ nblk = [i \in Insts |-> 0]
    /\ last = [op |-> "New", inst |-> 1]

NextStream ==
    \/ \E n \in {1, 32, Rest(1)} : CallWrite(1, n)
    \/ CallSum(1, << >>)

SpecStream == InitStream /\ [][NextStream]_vars

\* Two callers, each with its own Hash on its own message, in any
\* interleaving.
InitTwo ==
    /\ globals = Globals
    /\ hs = [i \in Insts |-> New(SboxDefault)]
    /\ msg = [i \in Insts |-> IF i = 1 THEN 7 ELSE 6]
    /\ hist = [i \in Insts |-> << >>]
    /\ nblk = [i \in Insts |-> 0]
    /\ last = [op |-> "New", inst |-> 1]

NextTwo ==
    \/ \E i \in Insts : CallReset(i, msg[i])
    \/ \E i \in Insts : \E n \in {31, 33} : CallWrite(i, n)
    \/ \E i \in Insts : CallSum(i, << >>)

SpecTwo == InitTwo /\ [][NextTwo]_vars

\* fChi on its own: on each block with one byte set, on the first block of
\* the 50-byte message, and on what fChi returns, MaxChi times over.
MaxChi == 2

ChiByte == {1, 128, 255}

ChiInputs ==
    { SubSeq([i \in 1..BlockSize |-> IF i = k THEN b ELSE 0], 1, BlockSize) :
        k \in 1..BlockSize, b \in ChiByte }
    \cup { SubSeq(Vector6, 1, BlockSize) }

InitChi ==
    /\ globals = Globals
    /\ hs = [i \in Insts |-> New(SboxDefault)]
    /\ msg = [i \in Insts |-> 7]
    /\ hist = [i \in Insts |-> << >>]
    /\ nblk = [i \in Insts |-> 0]
    /\ last \in { [op |-> "block", n |-> 0, out |-> b] : b \in ChiInputs }

CallChi ==
    /\ last.n < MaxChi
    /\ last' = [op |-> "fChi", n |-> last.n + 1, in |-> last.out, out |-> fChi(last.out)]
    /\ UNCHANGED << globals, hs, msg, hist, nblk >>

NextChi == CallChi

SpecChi == InitChi /\ [][NextChi]_vars

\* fP on its own: on each block with one byte set, on the first block of
\* the 50-byte message, on the block whose byte k is k, and on what fP
\* returns, MaxP times over.
MaxP == 2

CountBlock == SubSeq([k \in 1..BlockSize |-> k - 1], 1, BlockSize)

PInputs == ChiInputs \cup {CountBlock}

InitP ==
    /\ globals = Globals
    /\ hs = [i \in Insts |-> New(SboxDefault)]
    /\ msg = [i \in Insts |-> 7]
    /\ hist = [i \in Insts |-> << >>]
    /\ nblk = [i \in Insts |-> 0]
    /\ last \in {[op |-> "block", n |-> 0, out |-> b] : b \in PInputs}

CallP ==
    /\ last.n < MaxP
    /\ last' = [op |-> "fP", n |-> last.n + 1, in |-> last.out, out |-> fP(last.out)]
    /\ UNCHANGED << globals, hs, msg, hist, nblk >>

NextP == CallP

SpecP == InitP /\ [][NextP]_vars

(* ----------------------------------------------------------------------- *)
(* Properties.  Their arithmetic is defined here, apart from the program's:*)
(* XOR bit by bit, and 256-bit numbers as 32 bytes, most significant first.*)
(* ----------------------------------------------------------------------- *)
XorBits(a, b) == BitXor(a, b, 8)

Xor6(a, b, c, d, e, f) == XorBits(XorBits(XorBits(XorBits(XorBits(a, b), c), d), e), f)

\* Y[k] of the Go array Y
At(Y, k) == Y[k + 1]

\* C10 as stated: out[0] = Y[0]^Y[2]^Y[4]^Y[6]^Y[24]^Y[30],
\* out[1] = Y[1]^Y[3]^Y[5]^Y[7]^Y[25]^Y[31] and out[2..32] = Y[0..30], for
\* every block Y handed to fChi.
ChiAsStated ==
    last.op = "fChi" =>
        /\ At(last.out, 0) = Xor6(At(last.in, 0), At(last.in, 2), At(last.in, 4),
                                  At(last.in, 6), At(last.in, 24), At(last.in, 30))
        /\ At(last.out, 1) = Xor6(At(last.in, 1), At(last.in, 3), At(last.in, 5),
                                  At(last.in, 7), At(last.in, 25), At(last.in, 31))
        /\ SubSeq(last.out, 3, 32) = SubSeq(last.in, 1, 30)

\* C10 as amended: out[0] = Y[0]^Y[6]^Y[24]^Y[26]^Y[28]^Y[30],
\* out[1] = Y[1]^Y[7]^Y[25]^Y[27]^Y[29]^Y[31] and out[2..32] = Y[0..30], for
\* every block Y handed to fChi.
ChiTaps ==
    last.op = "fChi" =>
        /\ Len(last.out) = BlockSize
        /\ At(last.out, 0) = Xor6(At(last.in, 0), At(last.in, 6), At(last.in, 24),
                                  At(last.in, 26), At(last.in, 28), At(last.in, 30))
        /\ At(last.out, 1) = Xor6(At(last.in, 1), At(last.in, 7), At(last.in, 25),
                                  At(last.in, 27), At(last.in, 29), At(last.in, 31))
        /\ SubSeq(last.out, 3, 32) = SubSeq(last.in, 1, 30)

\* fChi has run on a block whose byte 28, a tap of the code and not of the
\* statement, is set
ChiTapsWitness ==
    /\ last.op = "fChi"
    /\ At(last.in, 28) = 255
    /\ At(last.out, 0) = 255

\* the state (H, L, Sigma, B) of a hasher
Core(h) == [hsh |-> h.hsh, size |-> h.size, chk |-> h.chk, buf |-> h.buf]

\* a 256-bit number held as base-256 digits, least significant first and
\* without leading zeros, as 32 bytes, most significant first
Pad32(x) == [k \in 1..32 |-> IF 33 - k <= Len(x) THEN x[33 - k] ELSE 0]

\* a + b mod 2^256 on two such 32-byte numbers, byte by byte from the right
RECURSIVE AddBytes(_, _, _, _, _)
AddBytes(a, b, i, carry, acc) ==
    IF i = 0 \/ Len(acc) > 32 THEN acc
    ELSE AddBytes(a, b, i - 1, (a[i] + b[i] + carry) \div 256,
                  << (a[i] + b[i] + carry) % 256 >> \o acc)

AddMod256(a, b) == AddBytes(a, b, 32, 0, << >>)

\* the value of a 64-bit counter below 2^24
U64Val(s) == s[1] + 256 * s[2] + 65536 * s[3]

\* n < 2^31 as 64 bits, most significant byte first
BigEndian64(n) ==
    << 0, 0, 0, 0, (n \div 16777216) % 256, (n \div 65536) % 256, (n \div 256) % 256,
       n % 256 >>

\* x is a number in [0, 2^256)
InRange256(x) ==
    /\ Len(x) <= 32
    /\ \A k \in 1..Len(x) : x[k] \in Byte
    /\ Len(x) > 0 => x[Len(x)] # 0

\* the hasher h and what the last call returned are those of the hasher
\* one, and of Sum on it
SameAs(h, l, one) ==
    /\ Core(h) = Core(one)
    /\ l.op = "Sum" => l.out = Sum(globals, one, l.in).out

\* C1: a fresh hasher after any sequence of Writes whose pieces make up the
\* message m is in the same state (H, L, Sigma, B) as a fresh hasher after
\* the single Write(m), and Sum returns the same digest on both.
StreamingEquivalence ==
    SameAs(hs[1], last, Write(globals, New(SboxDefault), hist[1]).h)

\* the 64th byte of a message has been written on its own, and has made the
\* second block
StreamingEquivalenceWitness ==
    /\ last.op = "Write"
    /\ Len(last.data) = 1
    /\ Len(hist[1]) = 64
    /\ Len(last.calls) = 1
    /\ nblk[1] = 2

\* a Sum step leaves the hasher as it was and, after a Sum with the same
\* prefix, returns the same bytes; a Write step after a Sum leaves the hasher
\* in the state of a fresh hasher that was given the written bytes alone
SumStep ==
    /\ last'.op = "Sum" =>
          /\ hs' = hs
          /\ (last.op = "Sum" /\ last.in = last'.in) => last'.out = last.out
    /\ (last'.op = "Write" /\ last.op = "Sum") =>
          Core(hs'[last'.inst]) =
              Core(Write(globals, New(SboxDefault), hist'[last'.inst]).h)

\* C2: in every reachable state a call to Sum leaves H, L, Sigma and B
\* unchanged, so two consecutive Sums return the same bytes and a Write after
\* a Sum produces the state it would have produced without the Sum.
SumPure == [][SumStep]_vars

\* Sum has run with pending bytes after one absorbed block
SumPureWitness ==
    /\ last.op = "Sum"
    /\ Len(hs[1].buf) > 0
    /\ nblk[1] = 1
    /\ Len(last.calls) = 3

\* the hasher h, what the last Write or Sum returned included, is as a fresh
\* hasher given the bytes written since the Reset
AsFresh(h, l, r) ==
    /\ Core(h) = Core(r.h)
    /\ l.op = "Write" => (l.n = Len(l.data) /\ l.err = r.err)
    /\ l.op = "Sum" => l.out = Sum(globals, r.h, l.in).out

\* C3: Reset yields H = 0, L = 0, Sigma = 0 and |B| = 0 from any state, and
\* the Writes and Sums after it return what they return on a hasher fresh
\* from New, whatever was written before (the stale tmp included).
ResetRestores ==
    /\ last.op = "Reset" =>
          /\ hs[last.inst].hsh = Zero(32)
          /\ hs[last.inst].size = Zero(8)
          /\ hs[last.inst].chk = << >>
          /\ hs[last.inst].buf = << >>
    /\ AsFresh(hs[1], last, Write(globals, New(SboxDefault), hist[1]))

\* Sum has run on bytes written after a Reset that left tmp stale
ResetRestoresWitness ==
    /\ last.op = "Sum"
    /\ hs[1].tmp # Zero(32)
    /\ nblk[1] = 0
    /\ Len(hist[1]) = 16

\* what Sum(in) has to return on the hasher h: n steps, the last two on the
\* length block and on the checksum block
Finalized(h, l, n, rev) ==
    /\ Len(l.calls) = n
    /\ n = 3 => (l.calls[1].hin = h.hsh /\ l.calls[1].m = rev)
    /\ l.calls[n - 1].hin = (IF n = 3 THEN l.calls[1].out ELSE h.hsh)
    /\ l.calls[n - 1].m = Zero(24) \o BigEndian64(U64Val(h.size) + 8 * Len(h.buf))
    /\ l.calls[n].hin = l.calls[n - 1].out
    /\ l.calls[n].m = (IF n = 3 THEN AddMod256(Pad32(h.chk), rev) ELSE Pad32(h.chk))
    /\ l.out = l.in \o Rev(l.calls[n].out)
    /\ Len(l.out) = Len(l.in) + 32

\* C4: Sum(prefix) returns prefix || Reverse(Step(Step(H', LB), SigmaB)), of
\* length |prefix| + 32; with B empty (H', L', Sigma') = (H, L, Sigma) and no
\* tail step runs, otherwise rev = Reverse(B || zeros), H' = Step(H, rev),
\* Sigma' = Sigma + rev mod 2^256 and L' = L + 8|B|; LB holds L' big-endian in
\* bytes 24..31 and SigmaB is Sigma' big-endian on 32 bytes.
SumFinalizes ==
    last.op = "Sum" =>
        Finalized(hs[last.inst], last, IF hs[last.inst].buf = << >> THEN 2 ELSE 3,
                  Rev(hs[last.inst].buf \o Zero(32 - Len(hs[last.inst].buf))))

\* Sum has run with a prefix, on a hasher with a block absorbed and a byte
\* pending
SumFinalizesWitness ==
    /\ last.op = "Sum"
    /\ last.in = << 222, 173 >>
    /\ Len(hs[1].buf) = 1
    /\ nblk[1] = 1
    /\ Len(last.out) = 34

\* C5: after every Write, 0 <= |B| < 32 and L is 256 times the number of
\* blocks absorbed since construction or the last Reset; each absorbed block
\* is the oldest 32 pending bytes, in arrival order.
WriteInvariant ==
    /\ \A i \in Insts :
          /\ Len(hs[i].buf) < 32
          /\ hs[i].size = U64(256 * nblk[i])
          /\ hs[i].buf = SubSeq(hist[i], 32 * nblk[i] + 1, Len(hist[i]))
    /\ last.op = "Write" =>
          \A k \in 1..Len(last.calls) :
              last.calls[k].m =
                  Rev(SubSeq(hist[last.inst],
                             32 * (nblk[last.inst] - Len(last.calls) + k - 1) + 1,
                             32 * (nblk[last.inst] - Len(last.calls) + k)))

\* a Write of 33 bytes onto 31 pending ones has absorbed two blocks
WriteInvariantWitness ==
    /\ last.op = "Write"
    /\ Len(last.data) = 33
    /\ Len(last.calls) = 2
    /\ hs[1].buf = << >>

\* C6: Sigma is in [0, 2^256) in every reachable state and inside Sum, and
\* chkAdd returns exactly Sigma plus the big-endian integer of the reversed
\* block, mod 2^256 (2^256 is subtracted exactly when the sum reaches it).
ChecksumRange ==
    /\ \A i \in Insts : InRange256(hs[i].chk)
    /\ last.op \in {"Write", "Sum"} =>
          \A k \in 1..Len(last.adds) :
              /\ InRange256(last.adds[k].chk)
              /\ InRange256(last.adds[k].sum)
              /\ Pad32(last.adds[k].sum) =
                     AddMod256(Pad32(last.adds[k].chk), last.adds[k].data)

\* Sum has added the padded tail to a checksum of 2^256 - 1, and the sum was
\* 2^256 exactly
ChecksumRangeWitness ==
    /\ last.op = "Sum"
    /\ Len(last.adds) = 1
    /\ last.adds[1].chk = [k \in 1..32 |-> 255]
    /\ last.adds[1].data = Zero(31) \o << 1 >>
    /\ last.adds[1].sum = << >>

\* C7: Write(data) returns (len(data), nil) and Sum completes with a digest;
\* the checksum encoding never exceeds 32 bytes, every block handed to
\* blockReverse and step has 32 bytes, every key handed to the cipher has 32.
NoErrorOutcome ==
    /\ \A i \in Insts : Len(bigBytes(hs[i].chk)) <= BlockSize
    /\ last.op = "Write" => (last.n = Len(last.data) /\ last.err = "nil")
    /\ last.op = "Sum" => (~last.panic /\ Len(last.out) = Len(last.in) + Size)
    /\ last.op \in {"Write", "Sum"} =>
          /\ \A k \in 1..Len(last.adds) :
                /\ Len(last.adds[k].data) = BlockSize
                /\ Len(bigBytes(last.adds[k].sum)) <= BlockSize
          /\ \A k \in 1..Len(last.calls) :
                /\ Len(last.calls[k].hin) = BlockSize
                /\ Len(last.calls[k].m) = BlockSize
                /\ Len(last.calls[k].out) = BlockSize
                /\ Len(last.calls[k].keys) = 4
                /\ \A j \in 1..4 : Len(last.calls[k].keys[j]) = 32

\* Sum has completed on a checksum whose encoding fills the 32 bytes
NoErrorOutcomeWitness ==
    /\ last.op = "Sum"
    /\ ~last.panic
    /\ Len(bigBytes(hs[1].chk)) = BlockSize
    /\ Len(last.calls) = 2

\* each hasher is in the state, and the last Sum returned the digest, of a
\* hasher that ran its own operations alone
OwnHistory(i) ==
    SameAs(hs[i], IF last.inst = i THEN last ELSE [op |-> "none"],
           Write(Globals, New(SboxDefault), hist[i]).h)

IndependentState ==
    /\ globals = Globals
    /\ \A i \in Insts : OwnHistory(i)

\* a step writes neither the shared values nor the hasher it is not about
IndependentStep ==
    /\ globals' = globals
    /\ \A j \in Insts : j # last'.inst => hs'[j] = hs[j]

\* C8: under every interleaving of the Write/Sum/Reset operations of two
\* hashers with the same S-box, each reaches the state and returns the digests
\* of its own operations run alone; no operation writes the shared S-box or
\* c2, c3, c4, big256, and none depends on the other hasher's fields.
InstanceIndependence == []IndependentState /\ [][IndependentStep]_vars

\* the second hasher has run Sum with a block absorbed and a byte pending,
\* while the first was two blocks into another message
InstanceIndependenceWitness ==
    /\ last.op = "Sum"
    /\ last.inst = 2
    /\ Len(hist[2]) = 33
    /\ Len(hist[1]) = 64
    /\ hs[1].hsh # hs[2].hsh

\* C9: with SboxDefault, New; Write(m); Sum(nil) returns the listed digest for
\* each of the six standard messages.
KnownAnswers ==
    (/\ last.op = "Sum"
     /\ last.in = << >>
     /\ msg[1] <= 6
     /\ hist[1] = Messages[msg[1]]) => last.out = Digests[msg[1]]

\* Sum has returned the digest of the 50-byte message
KnownAnswersWitness ==
    /\ last.op = "Sum"
    /\ msg[1] = 6
    /\ hist[1] = Vector6
    /\ last.out = Digest6

(* ----------------------------------------------------------------------- *)
(* The step, as the standard words it: blocks are 32 bytes Y[0..32], and   *)
(* the transforms and the key schedule are written here with XorBits.      *)
(* ----------------------------------------------------------------------- *)
\* Y[8q..8q+8], the quarter h(q+1) of a block
Quarter(Y, q) == SubSeq(Y, 8 * q + 1, 8 * q + 8)

XorBytes(a, b) == SubSeq([k \in 1..Len(a) |-> XorBits(a[k], b[k])], 1, Len(a))

\* A(Y) = (Y[16..24] xor Y[24..32]) || Y[0..24]
TransA(Y) == XorBytes(Quarter(Y, 2), Quarter(Y, 3)) \o SubSeq(Y, 1, 24)

\* P(Y): out[4r + c] = Y[8c + r]
TransP(Y) == SubSeq([j \in 1..32 |-> At(Y, 8 * ((j - 1) % 4) + ((j - 1) \div 4))], 1, 32)

\* the constants C2, C3, C4 of the key schedule
SchedC(j) ==
    IF j = 3
    THEN << 255, 0, 255, 255, 0, 0, 0, 255, 255, 0, 0, 255, 0, 255, 255, 0,
            0, 255, 0, 255, 0, 255, 0, 255, 255, 0, 255, 0, 255, 0, 255, 0 >>
    ELSE SubSeq([k \in 1..32 |-> 0], 1, 32)

\* K1..K4: K1 = P(H xor M), Uj = A(Uj-1) xor Cj, Vj = A(A(Vj-1)),
\* Kj = P(Uj xor Vj)
RECURSIVE SchedKeys(_, _, _, _)
SchedKeys(U, V, j, acc) ==
    IF j > 4 \/ Len(acc) >= 4 THEN acc
    ELSE SchedKeys(XorBytes(TransA(U), SchedC(j + 1)), TransA(TransA(V)), j + 1,
                   Append(acc, TransP(XorBytes(U, V))))

KeySchedule(H, M) == SchedKeys(H, M, 1, << >>)

\* in the step c the quarter q of S is the reversed encryption, under the
\* reversed key K, of the reversed quarter q of H
Placed(c, K, q) ==
    Quarter(c.s, q) =
        Rev(Encrypt(Rev(K), globals.sboxes[SboxDefault], Rev(Quarter(c.hin, q))))

\* every step of the last call has, for each round j, the quarter that
\* round j is said to work on placed under Kj
PlacedAll(c, K, stated) ==
    \A j \in 1..4 : Placed(c, K[j], IF stated THEN j - 1 ELSE 4 - j)

\* C11 as stated: round j encrypts reverse8(h_j), h_j = H[8(j-1)..8j], under
\* reverse32(K_j) and stores reverse8(ciphertext) at S[8(j-1)..8j].
AdapterAsStated ==
    last.op \in {"Write", "Sum"} =>
        \A k \in 1..Len(last.calls) :
            PlacedAll(last.calls[k], KeySchedule(last.calls[k].hin, last.calls[k].m), TRUE)

\* C11 as amended: round j encrypts reverse8(h_(5-j)), h_q = H[8(q-1)..8q],
\* under reverse32(K_j) and stores reverse8(ciphertext) at S[8(4-j)..8(5-j)].
AdapterPlacement ==
    last.op \in {"Write", "Sum"} =>
        \A k \in 1..Len(last.calls) :
            PlacedAll(last.calls[k], KeySchedule(last.calls[k].hin, last.calls[k].m), FALSE)

\* a step has run on a chaining value whose four quarters differ
AdapterPlacementWitness ==
    /\ last.op = "Write"
    /\ Len(last.calls) = 2
    /\ \A p, q \in 0..3 :
          p # q => Quarter(last.calls[2].hin, p) # Quarter(last.calls[2].hin, q)
    /\ \A p, q \in 0..3 :
          p # q => Quarter(last.calls[2].s, p) # Quarter(last.calls[2].s, q)

\* the round j of the step c was keyed with the reversed Kj and worked on
\* the j-th quarter of H from the high end
RoundOf(c, K, j) ==
    /\ c.keys[j] = Rev(K[j])
    /\ Quarter(c.s, 4 - j) =
           Rev(Encrypt(c.keys[j], globals.sboxes[SboxDefault],
                       Rev(SubSeq(c.hin, BlockSize - 8 * j + 1, BlockSize - 8 * j + 8))))

RoundsOf(c, K) == Len(c.keys) = 4 /\ \A j \in 1..4 : RoundOf(c, K, j)

\* C12: round j consumes the j-th 64-bit segment of H from the high end
\* (round 1 h4 = H[24..32], ..., round 4 h1 = H[0..8]), byte-reversed, and is
\* keyed by the byte-reversed K_j of the key schedule K1 = P(H xor M),
\* U_j = A(U_(j-1)) xor C_j, V_j = A(A(V_(j-1))), K_j = P(U_j xor V_j), with
\* C2 = C4 = 0 and C3 the fixed pattern.
QuarterToRound ==
    /\ globals.c2 = SchedC(2) /\ globals.c3 = SchedC(3) /\ globals.c4 = SchedC(4)
    /\ last.op \in {"Write", "Sum"} =>
          \A k \in 1..Len(last.calls) :
              RoundsOf(last.calls[k], KeySchedule(last.calls[k].hin, last.calls[k].m))

\* Sum has run its three steps after a block was absorbed, so that the key
\* schedule ran on non-zero H and M and gave four different keys
QuarterToRoundWitness ==
    /\ last.op = "Sum"
    /\ Len(last.calls) = 3
    /\ nblk[1] = 1
    /\ last.calls[1].hin # Zero(BlockSize)
    /\ \A i, j \in 1..4 : i # j => last.calls[1].keys[i] # last.calls[1].keys[j]

\* chi of the standard on the array Y, as fChi was found to compute it
Psi(Y) ==
    << Xor6(At(Y, 0), At(Y, 6), At(Y, 24), At(Y, 26), At(Y, 28), At(Y, 30)),
       Xor6(At(Y, 1), At(Y, 7), At(Y, 25), At(Y, 27), At(Y, 29), At(Y, 31)) >>
    \o SubSeq(Y, 1, 30)

RECURSIVE PsiTimes(_, _)
PsiTimes(Y, n) == IF n = 0 \/ Len(Y) # 32 THEN Y ELSE PsiTimes(Psi(Y), n - 1)

\* the step c returned chi^61(H xor chi(M xor chi^12(S)))
Mixed(c) ==
    c.out = PsiTimes(XorBytes(c.hin, Psi(XorBytes(c.m, PsiTimes(c.s, 12)))), 61)

\* the steps of a Write ran one after the other on the hasher's H and on
\* tmp, and left tmp as it was handed to them
WriteSteps(h, l) ==
    /\ \A k \in 1..Len(l.calls) - 1 : l.calls[k + 1].hin = l.calls[k].out
    /\ Len(l.calls) > 0 =>
          (h.hsh = l.calls[Len(l.calls)].out /\ h.tmp = l.calls[Len(l.calls)].m)

\* the steps of a Sum started from the hasher's H, ran one after the other,
\* and left H as it was handed to the first of them
SumSteps(h, l) ==
    /\ \A k \in 1..Len(l.calls) - 1 : l.calls[k + 1].hin = l.calls[k].out
    /\ l.calls[1].hin = h.hsh

\* C13: step returns H' = chi^61(H xor chi(M xor chi^12(S))) for the S its
\* four rounds produced: 12 chi, XOR with M, one chi, XOR with the input H,
\* 61 chi; and it modifies neither H and M nor any field of the hasher.
CompressionMixing ==
    /\ last.op \in {"Write", "Sum"} =>
          \A k \in 1..Len(last.calls) : Mixed(last.calls[k])
    /\ last.op = "Write" => WriteSteps(hs[last.inst], last)
    /\ last.op = "Sum" => SumSteps(hs[last.inst], last)

\* a Write has run two steps, the second on a non-zero H, a non-zero M
\* different from it, and an S different from both
CompressionMixingWitness ==
    /\ last.op = "Write"
    /\ Len(last.calls) = 2
    /\ last.calls[2].hin # Zero(BlockSize)
    /\ last.calls[2].m # Zero(BlockSize)
    /\ last.calls[2].m # last.calls[2].hin
    /\ last.calls[2].s # last.calls[2].hin
    /\ last.calls[2].out = hs[1].hsh

\* the bytes of a block, as a set
Bytes(Y) == {Y[k] : k \in 1..Len(Y)}

\* C14 as stated: fP is a bijective permutation of the 32 byte positions with
\* out[k + 4(i-1)] = in[8(i-1) + k] for i in 1..8 and k in 0..3, and this is
\* the permutation out[4r + c] = in[8c + r] for r in 0..7, c in 0..3 (an
\* input byte 8(i-1) + k has to be one of the 32).
PermAsStated ==
    last.op = "fP" =>
        /\ \A i \in 1..8 : \A k \in 0..3 :
              /\ 8 * (i - 1) + k \in 0..31
              /\ At(last.out, k + 4 * (i - 1)) = At(last.in, 8 * (i - 1) + k)
        /\ \A r \in 0..7 : \A c \in 0..3 :
              At(last.out, 4 * r + c) = At(last.in, 8 * c + r)

\* C14 as amended: fP is a bijective permutation of the 32 byte positions
\* with out[4r + c] = in[8c + r] for r in 0..7, c in 0..3 (the input as a 4x8
\* matrix filled row-major and read column-major), that is out[i + 4(k-1)] =
\* in[8i + k - 1] for i in 0..3 and k in 1..8.
PermMatrix ==
    last.op = "fP" =>
        /\ Len(last.out) = 32
        /\ \A r \in 0..7 : \A c \in 0..3 :
              At(last.out, 4 * r + c) = At(last.in, 8 * c + r)
        /\ \A i \in 0..3 : \A k \in 1..8 :
              At(last.out, i + 4 * (k - 1)) = At(last.in, 8 * i + k - 1)
        /\ {4 * r + c : r \in 0..7, c \in 0..3} = 0..31
        /\ {8 * c + r : r \in 0..7, c \in 0..3} = 0..31
        /\ Cardinality(Bytes(last.in)) = 32 =>
              (Bytes(last.out) = Bytes(last.in) /\ last.out # last.in)

\* fP has run on the block whose byte k is k, and has put bytes 8, 16, 24
\* and 1 after byte 0
PermMatrixWitness ==
    /\ last.op = "fP"
    /\ last.in = [k \in 1..32 |-> k - 1]
    /\ SubSeq(last.out, 1, 5) = << 0, 8, 16, 24, 1 >>

====
